---- MODULE Spec2Model ----
(***************************************************************************)
(* Model of the unicon-engine execution core:                              *)
(*   - Executor.run and ExecutorCwd   (unicon_runner/executor/base.py)     *)
(*   - Programs.run / run_program     (unicon_runner/runner/task/          *)
(*                                     programming.py)                     *)
(* The batch runner fans its programs out as asyncio tasks of one          *)
(* TaskGroup.  The event loop is modelled as its FIFO ready queue: a task  *)
(* runs from one suspension point to the next as one atomic step, a        *)
(* finished task's done-callback is queued behind the handles that were    *)
(* already ready, and the backend (Executor._execute) is the only          *)
(* suspension point of a run.                                              *)
(*                                                                         *)
(* run_program awaits executor.run_request(request, uuid); the executor    *)
(* module it imports is not part of the sources at hand, so the call is    *)
(* modelled by Executor.run of executor/base.py, which the batch runner    *)
(* drives according to the specification.  shutil.rmtree is taken to       *)
(* succeed; mkdir, every staged write and _execute may raise.              *)
(***************************************************************************)
EXTENDS Integers, Sequences, FiniteSets, TLC

\* ---------------------------------------------------------------- bounds
MaxN == 2          \* largest batch (number of programs)
NumIds == 2        \* number of distinct run identifiers uuid4 may draw

Ids == 1 .. NumIds
NoId == 0

\* exit codes the backend may report (around every row of the table)
ExitCodes == {-9, 0, 1, 2, 124, 137}

VARIABLES
    programs,            \* Programs.programs: the input sequence
    pc,                  \* position of Programs.run
    results_with_index,  \* the shared dict of Programs.run
    ret,                 \* what Programs.run returned or raised
    tstate,              \* per task: none/scheduled/suspended/done/failed/cancelled
    must_cancel,         \* per task: Task._must_cancel
    fut,                 \* per task: the future of the pending _execute call
    run_id,              \* per task: the id of the lease its Executor.run holds
    fs,                  \* directories under Executor.root_dir
    ready,               \* the event loop's FIFO queue of ready handles
    tg_tasks,            \* TaskGroup._tasks
    tg_errors,           \* TaskGroup._errors (indexes of the failed tasks)
    tg_aborting,         \* TaskGroup._aborting
    program_result,      \* per task: the ProgramResult its Executor.run returned
    trace,               \* per task: history of the steps of Executor.run
    finish_order         \* history: the indexes of the tasks in the order they ended

vars == <<programs, pc, results_with_index, ret, tstate, must_cancel, fut,
          run_id, fs, ready, tg_tasks, tg_errors, tg_aborting, program_result,
          trace, finish_order>>

\* ------------------------------------------------------------ data model
\* class Status
Status == {"OK", "MLE", "TLE", "RTE", "WA"}

\* variant: the earlier mapping wins on a key collision
Merge_first_wins(a, b) ==
    [k \in (DOMAIN a) \cup (DOMAIN b) |-> IF k \in DOMAIN a THEN a[k] ELSE b[k]]

\* {**a, **b}: the later mapping wins on a key collision
Merge(a, b) ==
    [k \in (DOMAIN a) \cup (DOMAIN b) |-> IF k \in DOMAIN b THEN b[k] ELSE a[k]]

EmptyDict == [k \in {} |-> k]

\* variant: the validator only asks for some file
check_entrypoint_exists_in_files_nonempty(p) == Len(p.files) > 0

\* Program.check_entrypoint_exists_in_files
check_entrypoint_exists_in_files(p) ==
    \E k \in 1 .. Len(p.files) : p.files[k] = p.entrypoint

\* Programs a caller may try to construct; extra holds the tracking fields
Candidates ==
    { [entrypoint |-> "main.py", files |-> <<"main.py">>,
       extra |-> [testcase_id |-> "42"]],
      [entrypoint |-> "run.sh", files |-> <<"lib.py", "run.sh">>,
       extra |-> [testcase_id |-> "7", status |-> "WA", stdout |-> "mine"]],
      [entrypoint |-> "absent.py", files |-> <<"main.py">>,
       extra |-> EmptyDict] }

\* the Programs that pass construction
ProgramPool == {p \in Candidates : check_entrypoint_exists_in_files(p)}

Indexes == 0 .. (Len(programs) - 1)
Prog(i) == programs[i + 1]

\* Executor.get_filesystem_mapping: one (path, content, is_exec) entry per
\* file of the program, the entrypoint executable
get_filesystem_mapping(p) ==
    [k \in 1 .. Len(p.files) |->
        [path |-> p.files[k], is_exec |-> (p.files[k] = p.entrypoint)]]

\* ------------------------------------------------------ working directory
NoDir == [exists |-> FALSE, owner |-> -1, files |-> {}]

\* variant: mkdir(parents=True, exist_ok=True), a directory in use is taken
uuid4_exist_ok(f) == Ids

\* str(uuid.uuid4()) of a run whose mkdir succeeds: an identifier no
\* directory carries.  Unused identifiers are interchangeable, so the least
\* one stands for all of them; an identifier in use makes mkdir raise
\* (RunAcquireFail)
uuid4(f) == {d \in Ids : ~f[d].exists /\ \A e \in Ids : e < d => f[e].exists}

\* ExecutorCwd.__init__: mkdir(parents=True) of root_dir / id
ExecutorCwd_init(f, id, i) ==
    [f EXCEPT ![id] = [exists |-> TRUE, owner |-> i, files |-> {}]]

\* variant: the exit removes the whole root directory
ExecutorCwd_exit_root(f, id) == [d \in Ids |-> NoDir]

\* variant: the directory is left behind on exit
ExecutorCwd_exit_keep(f, id) == f

\* ExecutorCwd.__exit__: shutil.rmtree(self._cwd)
ExecutorCwd_exit(f, id) ==
    [f EXCEPT ![id] = NoDir]

\* the staging loop of Executor.run, for the first n entries of the mapping
Stage(f, id, mapping, n) ==
    [f EXCEPT ![id].files = @ \cup {mapping[k] : k \in 1 .. n}]

\* ------------------------------------------------------------- classifier
\* variant: an exit code without a row of its own counts as wrong output
Classify_wa(exit_code) ==
    CASE exit_code = 137 -> "MLE"
      [] exit_code = 124 -> "TLE"
      [] exit_code = 1   -> "RTE"
      [] exit_code = 0   -> "OK"
      [] OTHER           -> "WA"

\* variant: the rows for 137 and 124 exchanged
Classify_swapped(exit_code) ==
    CASE exit_code = 137 -> "TLE"
      [] exit_code = 124 -> "MLE"
      [] exit_code = 1   -> "RTE"
      [] OTHER           -> "OK"

\* the match statement of Executor.run
Classify(exit_code) ==
    CASE exit_code = 137 -> "MLE"
      [] exit_code = 124 -> "TLE"
      [] exit_code = 1   -> "RTE"
      [] OTHER           -> "OK"

\* variant: the tracking fields are left out of the result
ProgramResult_notracking(tracking, raw) ==
    [status |-> Classify(raw.exit_code), stdout |-> raw.stdout, stderr |-> raw.stderr]

\* ProgramResult.model_validate({**_tracking_fields, status, stdout, stderr})
ProgramResult(tracking, raw) ==
    Merge(tracking, [status |-> Classify(raw.exit_code),
                     stdout |-> raw.stdout,
                     stderr |-> raw.stderr])

\* ExecutorResult.model_validate as run_program uses it: the class comes
\* from unicon_runner.executor.variants.base; it is taken to be the Program
\* Result of the specification, which keeps every key of the merged mapping
ExecutorResult_model_validate(d) == d

\* run_program: {**(program.model_extra or {}), **result.model_dump()}
RunProgramResult(p, result) ==
    ExecutorResult_model_validate(Merge(p.extra, result))

\* variant: the tasks are numbered from one
ResultKey_onebased(index, results) == index + 1

\* variant: append-on-completion, the key is the number of results so far
ResultKey_append(index, results) == Cardinality(DOMAIN results)

\* run_program: the key under which a task stores its result
ResultKey(index, results) == index

\* -------------------------------------------------------------- futures
NoFut == [state |-> "none", exit_code |-> 0, stdout |-> "", stderr |-> ""]
PendingFut == [NoFut EXCEPT !.state = "pending"]

\* the raw result the backend reports for program p
RawResult(p, code) ==
    [state |-> "result", exit_code |-> code, stdout |-> p.entrypoint, stderr |-> ""]

Handle(kind, i) == [kind |-> kind, task |-> i]
ParentHandle == Handle("parent", -1)

InReady(h) == \E k \in 1 .. Len(ready) : ready[k] = h

Perms(S) ==
    {s \in [1 .. Cardinality(S) -> S] :
        \A a, b \in 1 .. Cardinality(S) : a # b => s[a] # s[b]}

\* repeated "write" events, one per staged entry
Writes(n) == [k \in 1 .. n |-> "write"]

NoRet == [kind |-> "none", status |-> "", result |-> <<>>, errors |-> <<>>]

\* ------------------------------------------------------------------ Init
Init ==
    /\ programs \in UNION {[1 .. n -> Candidates] : n \in 1 .. MaxN}
    /\ pc = "new"
    /\ results_with_index = EmptyDict
    /\ ret = NoRet
    /\ tstate = [i \in Indexes |-> "none"]
    /\ must_cancel = [i \in Indexes |-> FALSE]
    /\ fut = [i \in Indexes |-> NoFut]
    /\ run_id = [i \in Indexes |-> NoId]
    /\ fs = [d \in Ids |-> NoDir]
    /\ ready = <<>>
    /\ tg_tasks = {}
    /\ tg_errors = <<>>
    /\ tg_aborting = FALSE
    /\ program_result = [i \in Indexes |-> EmptyDict]
    /\ trace = [i \in Indexes |-> <<>>]
    /\ finish_order = <<>>

\* --------------------------------------------------------------- actions
\* Programs(...) is constructed: every Program runs its validator, and one
\* that raises fails the construction (configuration error)
Construct ==
    /\ pc = "new"
    /\ pc' = IF \A k \in 1 .. Len(programs) :
                    check_entrypoint_exists_in_files(programs[k])
             THEN "start" ELSE "config_error"
    /\ UNCHANGED <<programs, results_with_index, ret, tstate, must_cancel, fut,
                   run_id, fs, ready, tg_tasks, tg_errors, tg_aborting,
                   program_result, trace, finish_order>>

\* Programs.run up to the end of the TaskGroup body: one task per program,
\* created in index order; the call then waits in TaskGroup.__aexit__
Run ==
    /\ pc = "start"
    /\ pc' = "waiting"
    /\ results_with_index' = EmptyDict
    /\ tstate' = [i \in Indexes |-> "scheduled"]
    /\ tg_tasks' = Indexes
    /\ ready' = [k \in 1 .. Len(programs) |-> Handle("step", k - 1)]
    /\ UNCHANGED <<programs, ret, must_cancel, fut, run_id, fs, tg_errors,
                   tg_aborting, trace, finish_order, program_result>>

\* a task ends (result, exception or cancellation): its done-callback is
\* queued behind whatever is ready already
Finished(i, how) ==
    /\ tstate' = [tstate EXCEPT ![i] = how]
    /\ ready' = Append(Tail(ready), Handle("done_cb", i))
    /\ finish_order' = Append(finish_order, i)

\* variant: the removal also runs when the directory could not be made
RunAcquireFail_cleanup(i, id) ==
    /\ pc = "waiting"
    /\ ready # <<>> /\ Head(ready) = Handle("step", i)
    /\ tstate[i] = "scheduled" /\ ~must_cancel[i]
    /\ fs' = ExecutorCwd_exit(fs, id)
    /\ trace' = [trace EXCEPT ![i] = <<"mkdir_raise", "rmtree", "raise">>]
    /\ Finished(i, "failed")
    /\ UNCHANGED <<programs, pc, results_with_index, ret, must_cancel, fut,
                   run_id, tg_tasks, tg_errors, tg_aborting, program_result>>

\* first step of a task, Executor.run: ExecutorCwd.__init__ raises
RunAcquireFail(i, id) ==
    /\ pc = "waiting"
    /\ ready # <<>> /\ Head(ready) = Handle("step", i)
    /\ tstate[i] = "scheduled" /\ ~must_cancel[i]
    /\ trace' = [trace EXCEPT ![i] = <<"mkdir_raise", "raise">>]
    /\ Finished(i, "failed")
    /\ UNCHANGED <<programs, pc, results_with_index, ret, must_cancel, fut, fs,
                   run_id, tg_tasks, tg_errors, tg_aborting, program_result>>

\* first step of a task, Executor.run: entry k of the mapping cannot be
\* written; the with statement leaves through ExecutorCwd.__exit__
RunStageFail(i, id, k) ==
    /\ pc = "waiting"
    /\ ready # <<>> /\ Head(ready) = Handle("step", i)
    /\ tstate[i] = "scheduled" /\ ~must_cancel[i]
    /\ id \in uuid4(fs)
    /\ k \in 1 .. Len(get_filesystem_mapping(Prog(i)))
    /\ fs' = ExecutorCwd_exit(
                Stage(ExecutorCwd_init(fs, id, i), id,
                      get_filesystem_mapping(Prog(i)), k - 1), id)
    /\ trace' = [trace EXCEPT ![i] =
                    <<"mkdir">> \o Writes(k - 1) \o <<"write_raise", "rmtree", "raise">>]
    /\ Finished(i, "failed")
    /\ UNCHANGED <<programs, pc, results_with_index, ret, must_cancel, fut,
                   run_id, tg_tasks, tg_errors, tg_aborting, program_result>>

\* variant: _execute is invoked before the mapping is staged
RunPrefix_unstaged(n) == <<"mkdir", "execute">> \o Writes(n)

\* the steps of Executor.run from the start to the await of _execute
RunPrefix(n) == <<"mkdir">> \o Writes(n) \o <<"execute">>

\* first step of a task, Executor.run: directory made, mapping staged,
\* _execute invoked; the task suspends in it
RunExecute(i, id) ==
    /\ pc = "waiting"
    /\ ready # <<>> /\ Head(ready) = Handle("step", i)
    /\ tstate[i] = "scheduled" /\ ~must_cancel[i]
    /\ id \in uuid4(fs)
    /\ run_id' = [run_id EXCEPT ![i] = id]
    /\ fs' = Stage(ExecutorCwd_init(fs, id, i), id,
                   get_filesystem_mapping(Prog(i)),
                   Len(get_filesystem_mapping(Prog(i))))
    /\ trace' = [trace EXCEPT ![i] =
                    RunPrefix(Len(get_filesystem_mapping(Prog(i))))]
    /\ fut' = [fut EXCEPT ![i] = PendingFut]
    /\ tstate' = [tstate EXCEPT ![i] = "suspended"]
    /\ ready' = Tail(ready)
    /\ UNCHANGED <<programs, pc, results_with_index, ret, must_cancel,
                   tg_tasks, tg_errors, tg_aborting, finish_order,
                   program_result>>

\* the backend finishes the sandboxed program with some exit code
BackendReturn(i, code) ==
    /\ i \in Indexes
    /\ fut[i].state = "pending"
    /\ fut' = [fut EXCEPT ![i] = RawResult(Prog(i), code)]
    /\ ready' = Append(ready, Handle("step", i))
    /\ UNCHANGED <<programs, pc, results_with_index, ret, tstate, must_cancel,
                   run_id, fs, tg_tasks, tg_errors, tg_aborting, trace, finish_order,
                   program_result>>

\* the backend itself fails (infrastructure error)
BackendRaise(i) ==
    /\ i \in Indexes
    /\ fut[i].state = "pending"
    /\ fut' = [fut EXCEPT ![i] = [NoFut EXCEPT !.state = "exception"]]
    /\ ready' = Append(ready, Handle("step", i))
    /\ UNCHANGED <<programs, pc, results_with_index, ret, tstate, must_cancel,
                   run_id, fs, tg_tasks, tg_errors, tg_aborting, trace, finish_order,
                   program_result>>

\* variant: a nonzero exit code of the program is raised as an error
Raised_nonzero(f) ==
    f.state = "exception" \/ (f.state = "result" /\ f.exit_code # 0)

\* result = await self._execute(...): does the await raise?
Raised(f) == f.state = "exception"

\* the steps of Executor.run after _execute returned a raw result
RunSuffix == <<"rmtree", "classify", "return">>

\* second step of a task: _execute returned; the lease is released, the raw
\* result classified and merged, and run_program stores it under its index
RunReturn(i) ==
    /\ ready # <<>> /\ Head(ready) = Handle("step", i)
    /\ tstate[i] = "suspended" /\ ~must_cancel[i]
    /\ fut[i].state \in {"result", "exception"} /\ ~Raised(fut[i])
    /\ fs' = ExecutorCwd_exit(fs, run_id[i])
    /\ trace' = [trace EXCEPT ![i] = @ \o RunSuffix]
    /\ program_result' = [program_result EXCEPT ![i] =
                              ProgramResult(Prog(i).extra, fut[i])]
    /\ results_with_index' =
          (ResultKey(i, results_with_index) :>
              RunProgramResult(Prog(i), ProgramResult(Prog(i).extra, fut[i])))
          @@ results_with_index
    /\ run_id' = [run_id EXCEPT ![i] = NoId]
    /\ Finished(i, "done")
    /\ UNCHANGED <<programs, pc, ret, must_cancel, fut,
                   tg_tasks, tg_errors, tg_aborting>>

\* variant: a failed backend invocation is retried
RunRaise_retry(i) ==
    /\ ready # <<>> /\ Head(ready) = Handle("step", i)
    /\ tstate[i] = "suspended" /\ ~must_cancel[i]
    /\ fut[i].state \in {"result", "exception"} /\ Raised(fut[i])
    /\ fut' = [fut EXCEPT ![i] = PendingFut]
    /\ trace' = [trace EXCEPT ![i] = Append(@, "execute")]
    /\ ready' = Tail(ready)
    /\ UNCHANGED <<programs, pc, results_with_index, ret, tstate, must_cancel,
                   run_id, fs, tg_tasks, tg_errors, tg_aborting, finish_order,
                   program_result>>

\* variant: a failed backend invocation is reported as a runtime error
RunRaise_rte(i) ==
    /\ ready # <<>> /\ Head(ready) = Handle("step", i)
    /\ tstate[i] = "suspended" /\ ~must_cancel[i]
    /\ fut[i].state \in {"result", "exception"} /\ Raised(fut[i])
    /\ fs' = ExecutorCwd_exit(fs, run_id[i])
    /\ trace' = [trace EXCEPT ![i] = @ \o <<"rmtree", "return">>]
    /\ results_with_index' =
          (i :> Merge(Prog(i).extra, [status |-> "RTE", stdout |-> "", stderr |-> ""]))
          @@ results_with_index
    /\ run_id' = [run_id EXCEPT ![i] = NoId]
    /\ Finished(i, "done")
    /\ UNCHANGED <<programs, pc, ret, must_cancel, fut,
                   tg_tasks, tg_errors, tg_aborting, program_result>>

\* second step of a task: _execute raised; the error leaves the with
\* statement through ExecutorCwd.__exit__ and fails the task
RunRaise(i) ==
    /\ ready # <<>> /\ Head(ready) = Handle("step", i)
    /\ tstate[i] = "suspended" /\ ~must_cancel[i]
    /\ fut[i].state \in {"result", "exception"} /\ Raised(fut[i])
    /\ fs' = ExecutorCwd_exit(fs, run_id[i])
    /\ trace' = [trace EXCEPT ![i] = @ \o <<"rmtree", "raise">>]
    /\ run_id' = [run_id EXCEPT ![i] = NoId]
    /\ Finished(i, "failed")
    /\ UNCHANGED <<programs, pc, results_with_index, ret, must_cancel, fut,
                   tg_tasks, tg_errors, tg_aborting, program_result>>

\* variant: the directory is removed on return and on error only, a
\* cancelled run skips the removal
RunCancelled_norelease(i) ==
    /\ ready # <<>> /\ Head(ready) = Handle("step", i)
    /\ tstate[i] \in {"scheduled", "suspended"}
    /\ must_cancel[i] \/ fut[i].state = "cancelled"
    /\ trace' = [trace EXCEPT ![i] = Append(@, "cancelled")]
    /\ run_id' = [run_id EXCEPT ![i] = NoId]
    /\ Finished(i, "cancelled")
    /\ UNCHANGED <<programs, pc, results_with_index, ret, must_cancel, fut,
                   fs, tg_tasks, tg_errors, tg_aborting, program_result>>

\* a step of a cancelled task: CancelledError is thrown at its await (at
\* its start if it never ran) and leaves through ExecutorCwd.__exit__
RunCancelled(i) ==
    /\ ready # <<>> /\ Head(ready) = Handle("step", i)
    /\ tstate[i] \in {"scheduled", "suspended"}
    /\ must_cancel[i] \/ fut[i].state = "cancelled"
    /\ IF tstate[i] = "suspended"
       THEN /\ fs' = ExecutorCwd_exit(fs, run_id[i])
            /\ trace' = [trace EXCEPT ![i] = @ \o <<"rmtree", "cancelled">>]
       ELSE /\ fs' = fs
            /\ trace' = [trace EXCEPT ![i] = <<"cancelled">>]
    /\ run_id' = [run_id EXCEPT ![i] = NoId]
    /\ Finished(i, "cancelled")
    /\ UNCHANGED <<programs, pc, results_with_index, ret, must_cancel, fut,
                   tg_tasks, tg_errors, tg_aborting, program_result>>

\* variant: a failure cancels no sibling
AbortTargets_none(tasks) == {}

\* TaskGroup._abort: the tasks that are cancelled
AbortTargets(tasks) == {t \in tasks : tstate[t] \in {"scheduled", "suspended"}}

\* TaskGroup._on_task_done for a failed task while the group is not yet
\* aborting: the error is kept, every unfinished sibling is cancelled (a
\* pending future is cancelled and wakes its task, otherwise the task is
\* marked), and the waiting parent is woken
OnTaskDoneAbort(i) ==
    /\ ready # <<>> /\ Head(ready) = Handle("done_cb", i)
    /\ tstate[i] = "failed" /\ ~tg_aborting
    /\ tg_tasks' = tg_tasks \ {i}
    /\ tg_errors' = Append(tg_errors, i)
    /\ tg_aborting' = TRUE
    /\ LET targets == AbortTargets(tg_tasks \ {i})
           woken == {t \in targets : fut[t].state = "pending"}
       IN /\ fut' = [t \in Indexes |->
                        IF t \in woken THEN [NoFut EXCEPT !.state = "cancelled"]
                        ELSE fut[t]]
          /\ must_cancel' = [t \in Indexes |->
                        IF t \in targets \ woken THEN TRUE ELSE must_cancel[t]]
          /\ \E order \in Perms(woken) :
                ready' = Tail(ready)
                         \o [k \in 1 .. Cardinality(woken) |-> Handle("step", order[k])]
                         \o (IF InReady(ParentHandle) THEN <<>> ELSE <<ParentHandle>>)
    /\ UNCHANGED <<programs, pc, results_with_index, ret, tstate, run_id, fs, trace, finish_order,
                   program_result>>

\* variant: the waiting parent is not woken when the group empties
OnTaskDone_nowake(i) ==
    /\ ready # <<>> /\ Head(ready) = Handle("done_cb", i)
    /\ tstate[i] # "failed" \/ tg_aborting
    /\ tg_tasks' = tg_tasks \ {i}
    /\ tg_errors' = IF tstate[i] = "failed" THEN Append(tg_errors, i) ELSE tg_errors
    /\ ready' = Tail(ready)
    /\ UNCHANGED <<programs, pc, results_with_index, ret, tstate, must_cancel,
                   fut, run_id, fs, tg_aborting, trace, finish_order,
                   program_result>>

\* TaskGroup._on_task_done otherwise: the task leaves the group, a further
\* error is kept, and the parent is woken when the group is empty
OnTaskDone(i) ==
    /\ ready # <<>> /\ Head(ready) = Handle("done_cb", i)
    /\ tstate[i] # "failed" \/ tg_aborting
    /\ tg_tasks' = tg_tasks \ {i}
    /\ tg_errors' = IF tstate[i] = "failed" THEN Append(tg_errors, i) ELSE tg_errors
    /\ ready' = Tail(ready) \o
                (IF tg_tasks \ {i} = {} /\ ~InReady(ParentHandle)
                 THEN <<ParentHandle>> ELSE <<>>)
    /\ UNCHANGED <<programs, pc, results_with_index, ret, tstate, must_cancel,
                   fut, run_id, fs, tg_aborting, trace, finish_order,
                   program_result>>

\* Programs.run, the list comprehension after the TaskGroup
BuildResults(results) ==
    [k \in 1 .. Cardinality(DOMAIN results) |-> results[k - 1]]

\* variant: the errors of the tasks are swallowed
GroupRaises_swallow(errors) == FALSE

\* TaskGroup.__aexit__: does the group leave by raising?
GroupRaises(errors) == errors # <<>>

\* the parent wakes in TaskGroup.__aexit__: it keeps waiting while tasks
\* remain, raises the ExceptionGroup of the errors if there are any, and
\* otherwise Programs.run builds and returns the TaskEvalResult
ParentWake ==
    /\ pc = "waiting"
    /\ ready # <<>> /\ Head(ready) = ParentHandle
    /\ ready' = Tail(ready)
    /\ IF tg_tasks # {}
       THEN UNCHANGED <<pc, ret>>
       ELSE IF GroupRaises(tg_errors)
            THEN /\ pc' = "raised"
                 /\ ret' = [NoRet EXCEPT !.kind = "ExceptionGroup", !.errors = tg_errors]
            ELSE /\ pc' = "returned"
                 /\ ret' = [NoRet EXCEPT !.kind = "TaskEvalResult",
                                         !.status = "SUCCESS",
                                         !.result = BuildResults(results_with_index)]
    /\ UNCHANGED <<programs, results_with_index, tstate, must_cancel, fut,
                   run_id, fs, tg_tasks, tg_errors, tg_aborting, trace, finish_order,
                   program_result>>

Next ==
    \/ Construct
    \/ Run
    \/ \E i \in Indexes, id \in Ids : RunAcquireFail(i, id)
    \/ \E i \in Indexes, id \in Ids :
          \E k \in 1 .. Len(get_filesystem_mapping(Prog(i))) : RunStageFail(i, id, k)
    \/ \E i \in Indexes, id \in Ids : RunExecute(i, id)
    \/ \E i \in Indexes, code \in ExitCodes : BackendReturn(i, code)
    \/ \E i \in Indexes : BackendRaise(i)
    \/ \E i \in Indexes : RunReturn(i)
    \/ \E i \in Indexes : RunRaise(i)
    \/ \E i \in Indexes : RunCancelled(i)
    \/ \E i \in Indexes : OnTaskDoneAbort(i)
    \/ \E i \in Indexes : OnTaskDone(i)
    \/ ParentWake

Spec == Init /\ [][Next]_vars

\* the event loop runs the handle at the head of its ready queue
LoopStep ==
    \/ Construct
    \/ Run
    \/ \E i \in Indexes, id \in Ids : RunAcquireFail(i, id)
    \/ \E i \in Indexes, id \in Ids :
          \E k \in 1 .. Len(get_filesystem_mapping(Prog(i))) : RunStageFail(i, id, k)
    \/ \E i \in Indexes, id \in Ids : RunExecute(i, id)
    \/ \E i \in Indexes : RunReturn(i)
    \/ \E i \in Indexes : RunRaise(i)
    \/ \E i \in Indexes : RunCancelled(i)
    \/ \E i \in Indexes : OnTaskDoneAbort(i)
    \/ \E i \in Indexes : OnTaskDone(i)
    \/ ParentWake

\* termination does not depend on which exit code a program reports: the
\* fair specification lets the backend report a success or a kill
LiveExitCodes == {0, 137}

\* the backend answers a pending invocation
BackendStep ==
    \/ \E i \in Indexes, code \in LiveExitCodes : BackendReturn(i, code)
    \/ \E i \in Indexes : BackendRaise(i)

LiveNext == LoopStep \/ BackendStep

\* the event loop keeps running its ready handles, and a backend invocation
\* that is pending is answered eventually
FairSpec ==
    Init /\ [][LiveNext]_vars /\ WF_vars(LoopStep) /\ WF_vars(BackendStep)

\* ------------------------------------------------------------ properties
Ended(i) == tstate[i] \in {"done", "failed", "cancelled"}
CallEnded == pc \in {"returned", "raised"}
Count(seq, e) == Cardinality({k \in 1 .. Len(seq) : seq[k] = e})
Has(seq, e) == Count(seq, e) > 0
FirstAt(seq, e) == CHOOSE k \in 1 .. Len(seq) : seq[k] = e /\ \A j \in 1 .. (k - 1) : seq[j] # e
DerivedKeys == {"status", "stdout", "stderr"}

\* the classification table of the specification, row by row
Table(e) == IF e = 137 THEN "MLE" ELSE IF e = 124 THEN "TLE" ELSE IF e = 1 THEN "RTE" ELSE "OK"

\* C1: cleanup invariant. Once an invocation of Executor.run has ended
\* (returned, raised, or was cancelled in _execute), no directory that it
\* created exists any more.
C1_CleanupInvariant ==
    \A i \in Indexes :
        Ended(i) => ~ \E d \in Ids : fs[d].exists /\ fs[d].owner = i

\* a run that failed after staging began and a run cancelled in _execute,
\* both ended after having created their directory
C1_Witness ==
    \E i, j \in Indexes :
        /\ tstate[i] = "failed" /\ Has(trace[i], "mkdir")
        /\ tstate[j] = "cancelled" /\ Has(trace[j], "mkdir")
        /\ \A d \in Ids : ~fs[d].exists

\* C2: when every task completes, the returned sequence has one result per
\* program and result[i] is the result of executing programs[i], carrying
\* its tracking fields, whatever the order in which the tasks finished.
C2_OrderedResults ==
    pc = "returned" =>
        /\ Len(ret.result) = Len(programs)
        /\ \A i \in Indexes :
              LET r == ret.result[i + 1] IN
              /\ r.status = Table(fut[i].exit_code)
              /\ r.stdout = fut[i].stdout
              /\ r.stderr = fut[i].stderr
              /\ \A k \in (DOMAIN Prog(i).extra) \ DerivedKeys :
                    k \in DOMAIN r /\ r[k] = Prog(i).extra[k]

\* a returned batch of two different programs with different exit codes in
\* which the second program finished first
C2_Witness ==
    /\ pc = "returned"
    /\ Len(programs) >= 2
    /\ programs[1] # programs[2]
    /\ fut[0].exit_code # fut[1].exit_code
    /\ finish_order[1] = 1 /\ finish_order[2] = 0

\* C3: all or nothing. A call that has ended either returned a complete
\* result (one entry per program) or raised one aggregate error; with a
\* failed task nothing is returned and the recorded results are dropped.
C3_AllOrNothing ==
    /\ pc \in {"start", "waiting"} => ret = NoRet
    /\ pc = "returned" =>
          /\ ret.kind = "TaskEvalResult"
          /\ Len(ret.result) = Len(programs)
          /\ ret.errors = <<>>
          /\ \A i \in Indexes : tstate[i] = "done"
    /\ pc = "raised" =>
          /\ ret.kind = "ExceptionGroup"
          /\ ret.errors # <<>>
          /\ ret.result = <<>>
          /\ ret.status = ""
    /\ (\E i \in Indexes : tstate[i] = "failed") => pc # "returned"

\* a call that raised although a task had already recorded its result
C3_Witness ==
    /\ pc = "raised"
    /\ DOMAIN results_with_index # {}
    /\ ret.result = <<>>

\* C4 as stated: after the first task has raised, no sibling reaches
\* completion any more.
C4_FailFastAsStated ==
    \A a, b \in 1 .. Len(finish_order) :
        (a < b /\ tstate[finish_order[a]] = "failed")
            => tstate[finish_order[b]] # "done"

\* no task completes and no result is recorded once the group is aborting
C4_NoCompletionWhileAborting ==
    tg_aborting =>
        /\ results_with_index' = results_with_index
        /\ \A t \in Indexes : tstate'[t] = "done" => tstate[t] = "done"

\* every unfinished task of an aborting group has its cancellation
\* requested, and the call does not end before every task has ended
C4_AbortState ==
    /\ tg_aborting =>
          \A t \in Indexes :
              tstate[t] \in {"scheduled", "suspended"}
                  => (must_cancel[t] \/ fut[t].state = "cancelled")
    /\ CallEnded => \A t \in Indexes : Ended(t) /\ t \notin tg_tasks

\* C4 (amended): once the task group has handled the first failure, every
\* sibling still running is cancelled and none completes or records a
\* result after that point, and the call ends only after all tasks ended.
C4_FailFast == []C4_AbortState /\ [][C4_NoCompletionWhileAborting]_vars

\* a call that raised with a sibling cancelled in _execute
C4_Witness ==
    /\ pc = "raised"
    /\ \E t \in Indexes : tstate[t] = "cancelled" /\ Has(trace[t], "execute")

\* C5: exit codes never abort a batch. If the backend invocation of every
\* program returned a raw result, whatever the exit codes, no task failed
\* or was cancelled, no error was kept, and the call returns SUCCESS.
C5_ExitCodeNeverAborts ==
    (\A i \in Indexes : fut[i].state = "result") =>
        /\ ~tg_aborting /\ tg_errors = <<>>
        /\ \A i \in Indexes : tstate[i] \in {"suspended", "done"} /\ ~must_cancel[i]
        /\ pc # "raised"
        /\ pc = "returned" => ret.status = "SUCCESS"
        /\ (tg_tasks = {} /\ ready = <<>>) => pc = "returned"

\* a returned batch in which one program exited 1 and another was killed
C5_Witness ==
    /\ pc = "returned" /\ ret.status = "SUCCESS"
    /\ \E i, j \in Indexes :
          fut[i].exit_code = 1 /\ fut[j].exit_code \in {124, 137}

\* C6 as stated: in every call that has ended the backend was invoked
\* exactly once for every program.
C6_ExactlyOnceAsStated ==
    CallEnded => \A i \in Indexes : Count(trace[i], "execute") = 1

\* C6 (amended): the backend is invoked at most once for every program (no
\* retry) and exactly once for every program of a call that returns.
C6_AtMostOnce ==
    /\ \A i \in Indexes : Count(trace[i], "execute") <= 1
    /\ pc = "returned" => \A i \in Indexes : Count(trace[i], "execute") = 1

\* a call that raised: one program's backend failed after its invocation,
\* another program was never executed
C6_Witness ==
    /\ pc = "raised"
    /\ \E i, j \in Indexes :
          /\ fut[i].state = "exception" /\ Count(trace[i], "execute") = 1
          /\ Count(trace[j], "execute") = 0

\* C7: the status of a result depends on the exit code alone: 137 is MLE,
\* 124 is TLE, 1 is RTE and every other code (0 and negatives included) OK.
C7_Classifier ==
    \A i \in DOMAIN results_with_index :
        /\ i \in Indexes
        /\ results_with_index[i].status = Table(fut[i].exit_code)
        /\ \A j \in DOMAIN results_with_index :
              fut[i].exit_code = fut[j].exit_code
                  => results_with_index[i].status = results_with_index[j].status

\* two recorded results, one for a time-out kill and one for a negative code
C7_Witness ==
    \E i, j \in DOMAIN results_with_index :
        /\ fut[i].exit_code = 124 /\ results_with_index[i].status = "TLE"
        /\ fut[j].exit_code = -9 /\ results_with_index[j].status = "OK"

\* C8: the steps of Executor.run come in a fixed order: the directory is
\* made first, every entry of the mapping is written before _execute is
\* invoked, and the directory is removed before the result is classified
\* and returned.
C8_StepOrder ==
    \A i \in Indexes :
        LET tr == trace[i]
            n == Len(get_filesystem_mapping(Prog(i)))
        IN /\ \A k \in 1 .. Len(tr) :
                 tr[k] \in {"write", "write_raise", "execute", "rmtree"}
                     => tr[1] = "mkdir"
           /\ \A k \in 1 .. Len(tr) :
                 tr[k] = "execute" =>
                     /\ Count(SubSeq(tr, 1, k - 1), "write") = n
                     /\ ~Has(SubSeq(tr, k + 1, Len(tr)), "write")
           /\ \A k \in 1 .. Len(tr) :
                 tr[k] \in {"classify", "return"} =>
                     /\ Has(SubSeq(tr, 1, k - 1), "execute")
                     /\ Has(SubSeq(tr, 1, k - 1), "rmtree")
                     /\ FirstAt(tr, "execute") < FirstAt(tr, "rmtree")
           /\ (Has(tr, "classify") /\ Has(tr, "return"))
                 => FirstAt(tr, "classify") < FirstAt(tr, "return")

\* a completed run of the program with two files
C8_Witness ==
    \E i \in Indexes :
        /\ tstate[i] = "done"
        /\ trace[i] = <<"mkdir", "write", "write", "execute", "rmtree", "classify", "return">>

\* C9: a lease is released exactly once: never more removals than
\* acquisitions, at most one of each, and as many removals as acquisitions
\* once the run has ended by return, error or cancellation.
C9_ReleaseExactlyOnce ==
    \A i \in Indexes :
        /\ Count(trace[i], "mkdir") <= 1
        /\ Count(trace[i], "rmtree") <= Count(trace[i], "mkdir")
        /\ Ended(i) => Count(trace[i], "rmtree") = Count(trace[i], "mkdir")
        /\ ~Ended(i) /\ Has(trace[i], "mkdir") => ~Has(trace[i], "rmtree")

\* one run cancelled in _execute and one run that ended with an error, each
\* with its lease released once
C9_Witness ==
    \E i, j \in Indexes :
        /\ tstate[i] = "cancelled" /\ Count(trace[i], "rmtree") = 1
        /\ tstate[j] = "failed" /\ Count(trace[j], "rmtree") = 1

\* C10: an infrastructure error never becomes an Outcome Status: a run in
\* which directory creation, staging or _execute raised ends failed, with
\* nothing classified and no result recorded; a result is recorded only
\* for a raw result the backend returned.
C10_ErrorIsNotAStatus ==
    /\ \A i \in Indexes :
          (Has(trace[i], "mkdir_raise") \/ Has(trace[i], "write_raise")
              \/ (Raised(fut[i]) /\ Ended(i) /\ Has(trace[i], "raise")))
            => /\ tstate[i] = "failed"
               /\ i \notin DOMAIN results_with_index
               /\ ~Has(trace[i], "classify") /\ ~Has(trace[i], "return")
    /\ \A i \in Indexes :
          (Raised(fut[i]) /\ Ended(i)) => tstate[i] \in {"failed", "cancelled"}
    /\ \A i \in DOMAIN results_with_index :
          /\ fut[i].state = "result"
          /\ tstate[i] = "done"
    /\ \A i \in Indexes :
          (tstate[i] = "failed" /\ i \notin tg_tasks)
              => \E k \in 1 .. Len(tg_errors) : tg_errors[k] = i

\* a call that raised because the backend of a program failed to launch
C10_Witness ==
    /\ pc = "raised"
    /\ \E i \in Indexes :
          /\ fut[i].state = "exception" /\ tstate[i] = "failed"
          /\ \E k \in 1 .. Len(ret.errors) : ret.errors[k] = i

Holds(i) == run_id[i] # NoId
Staged(p) == {get_filesystem_mapping(p)[k] : k \in 1 .. Len(get_filesystem_mapping(p))}
Valid(p) == p.entrypoint \in {p.files[k] : k \in 1 .. Len(p.files)}

\* C11: runs that overlap in time never share a working directory: the
\* leases held at any moment are pairwise distinct, each directory belongs
\* to the run that holds it and contains nothing another run staged, and a
\* directory disappears only in a step of the run that owns it.
C11_OwnDirectory ==
    \A i \in Indexes :
        Holds(i) =>
            /\ fs[run_id[i]].exists /\ fs[run_id[i]].owner = i
            /\ fs[run_id[i]].files \subseteq Staged(Prog(i))
            /\ \A j \in Indexes : (j # i /\ Holds(j)) => run_id[j] # run_id[i]

C11_OnlyOwnerRemoves ==
    \A d \in Ids :
        (fs[d].exists /\ fs'[d] # fs[d]) =>
            /\ ready # <<>>
            /\ Head(ready) = Handle("step", fs[d].owner)
            /\ ~fs'[d].exists

C11_DistinctDirectories == []C11_OwnDirectory /\ [][C11_OnlyOwnerRemoves]_vars

\* two runs suspended in _execute at the same time
C11_Witness ==
    \E i, j \in Indexes :
        /\ i # j /\ Holds(i) /\ Holds(j)
        /\ tstate[i] = "suspended" /\ tstate[j] = "suspended"

\* C12: when the call has ended by raising the aggregate error, no working
\* directory of any of its tasks exists, the directories of siblings
\* cancelled in _execute included.
C12_CleanAfterAggregateError ==
    pc = "raised" =>
        /\ \A d \in Ids : ~fs[d].exists
        /\ \A i \in Indexes :
              /\ Ended(i) /\ ~Holds(i)
              /\ Has(trace[i], "mkdir") => Has(trace[i], "rmtree")

\* a call that raised after a sibling was cancelled in _execute and its
\* directory removed
C12_Witness ==
    /\ pc = "raised"
    /\ \E i \in Indexes :
          /\ tstate[i] = "cancelled"
          /\ trace[i][Len(trace[i])] = "cancelled"
          /\ Has(trace[i], "execute") /\ Has(trace[i], "rmtree")
    /\ \A d \in Ids : ~fs[d].exists

\* C13: merge precedence. In every Program Result, and in every result the
\* batch records, status, stdout and stderr are the classified status and
\* the backend's output, also when a tracking field has the same name.
C13_DerivedFieldsWin ==
    /\ \A i \in Indexes :
          tstate[i] = "done" =>
              /\ program_result[i].status = Table(fut[i].exit_code)
              /\ program_result[i].stdout = fut[i].stdout
              /\ program_result[i].stderr = fut[i].stderr
    /\ \A i \in DOMAIN results_with_index :
          /\ results_with_index[i].status = program_result[i].status
          /\ results_with_index[i].stdout = program_result[i].stdout
          /\ results_with_index[i].stderr = program_result[i].stderr

\* a result of a program whose tracking fields named status and stdout
C13_Witness ==
    \E i \in Indexes :
        /\ tstate[i] = "done"
        /\ {"status", "stdout"} \subseteq DOMAIN Prog(i).extra
        /\ Prog(i).extra.status # program_result[i].status
        /\ Prog(i).extra.stdout # program_result[i].stdout
        /\ program_result[i].status = "MLE"

\* C14: tracking-field passthrough. A result has exactly the keys of the
\* program's tracking fields and the derived keys, and every tracking field
\* whose key is not a derived key keeps its value.
C14_Passthrough ==
    /\ \A i \in Indexes :
          tstate[i] = "done" =>
              /\ DOMAIN program_result[i] = (DOMAIN Prog(i).extra) \cup DerivedKeys
              /\ \A k \in (DOMAIN Prog(i).extra) \ DerivedKeys :
                    program_result[i][k] = Prog(i).extra[k]
    /\ \A i \in DOMAIN results_with_index :
          /\ DOMAIN results_with_index[i] = (DOMAIN Prog(i).extra) \cup DerivedKeys
          /\ \A k \in (DOMAIN Prog(i).extra) \ DerivedKeys :
                results_with_index[i][k] = Prog(i).extra[k]

\* the result of the program tracked as testcase 42
C14_Witness ==
    \E i \in DOMAIN results_with_index :
        /\ Prog(i).extra.testcase_id = "42"
        /\ results_with_index[i].testcase_id = "42"
        /\ program_result[i].testcase_id = "42"

\* C15: a Program whose entrypoint names none of its files fails
\* construction with a configuration error and nothing of it ever runs;
\* construction succeeds when every Program names one of its files.
C15_EntrypointChecked ==
    /\ (\E k \in 1 .. Len(programs) : ~Valid(programs[k])) =>
          /\ pc \in {"new", "config_error"}
          /\ \A i \in Indexes :
                tstate[i] = "none" /\ trace[i] = <<>> /\ fut[i] = NoFut
          /\ \A d \in Ids : ~fs[d].exists
    /\ (\A k \in 1 .. Len(programs) : Valid(programs[k])) => pc # "config_error"

\* a batch of a valid and an invalid Program, refused at construction
C15_Witness ==
    /\ pc = "config_error"
    /\ \E k \in 1 .. Len(programs) : Valid(programs[k])
    /\ \E k \in 1 .. Len(programs) : ~Valid(programs[k])

\* C16: the status of a result is OK, MLE, TLE or RTE and never WA, for
\* every exit code.
C16_NeverWrongOutput ==
    /\ \A i \in Indexes :
          tstate[i] = "done" => program_result[i].status \in Status \ {"WA"}
    /\ \A i \in DOMAIN results_with_index :
          results_with_index[i].status \in Status \ {"WA"}

\* a result for an exit code without a row of its own, of a program whose
\* tracking fields carried the status WA
C16_Witness ==
    \E i \in DOMAIN results_with_index :
        /\ fut[i].exit_code = 2
        /\ "status" \in DOMAIN Prog(i).extra /\ Prog(i).extra.status = "WA"
        /\ results_with_index[i].status = "OK"

\* C17: when the directory cannot be made the run raises at once: nothing
\* is staged, _execute is not invoked, no removal is attempted, nothing is
\* retried and no directory changes.
C17_AcquireFailState ==
    \A i \in Indexes :
        Has(trace[i], "mkdir_raise") =>
            /\ trace[i] = <<"mkdir_raise", "raise">>
            /\ tstate[i] = "failed"
            /\ fut[i] = NoFut /\ ~Holds(i)
            /\ \A d \in Ids : ~(fs[d].exists /\ fs[d].owner = i)

C17_AcquireFailStep ==
    \A i \in Indexes :
        (~Has(trace[i], "mkdir_raise") /\ Has(trace'[i], "mkdir_raise")) => fs' = fs

C17_AcquireFails == []C17_AcquireFailState /\ [][C17_AcquireFailStep]_vars

\* a run that could not make its directory while a sibling held a lease
C17_Witness ==
    \E i, j \in Indexes :
        /\ trace[i] = <<"mkdir_raise", "raise">>
        /\ Holds(j) /\ fs[run_id[j]].exists

\* C18: while _execute of a run is in progress its directory exists, is its
\* own and holds every staged file.
C18_DirectoryDuringExecute ==
    \A i \in Indexes :
        tstate[i] = "suspended" =>
            /\ Holds(i)
            /\ fs[run_id[i]].exists /\ fs[run_id[i]].owner = i
            /\ fs[run_id[i]].files = Staged(Prog(i))

\* a run still in _execute after a sibling has ended and released its lease
C18_Witness ==
    \E i, j \in Indexes :
        /\ tstate[i] = "suspended" /\ fut[i].state = "pending"
        /\ Has(trace[j], "rmtree")
        /\ Cardinality(fs[run_id[i]].files) = 2

\* C19: indexed accumulation. The keys of the shared dict are indexes of
\* the batch, key i is there exactly when task i is done, a step adds at
\* most the key of the task that runs it and changes no entry, and the
\* keys are exactly 0..N-1 when the output sequence has been built.
C19_KeysState ==
    /\ DOMAIN results_with_index \subseteq Indexes
    /\ \A i \in Indexes : (i \in DOMAIN results_with_index) <=> (tstate[i] = "done")
    /\ pc = "returned" =>
          /\ DOMAIN results_with_index = Indexes
          /\ Len(ret.result) = Cardinality(Indexes)
          /\ \A i \in Indexes : ret.result[i + 1] = results_with_index[i]

C19_KeysStep ==
    /\ \A k \in DOMAIN results_with_index :
          k \in DOMAIN results_with_index' /\ results_with_index'[k] = results_with_index[k]
    /\ \A k \in (DOMAIN results_with_index') \ (DOMAIN results_with_index) :
          ready # <<>> /\ Head(ready) = Handle("step", k)

C19_IndexedAccumulation == []C19_KeysState /\ [][C19_KeysStep]_vars

\* a returned batch whose dict was filled in the order 1, 0
C19_Witness ==
    /\ pc = "returned"
    /\ DOMAIN results_with_index = {0, 1}
    /\ finish_order = <<1, 0>>

\* C20: termination. With the event loop running and every pending backend
\* invocation answered eventually, a call that has started ends, by
\* returning its result or by raising the aggregate error.
C20_Termination == (pc = "waiting") ~> CallEnded

\* a call that ended by raising after it cancelled a task whose backend
\* invocation had already returned
C20_Witness ==
    /\ pc = "raised"
    /\ \E i \in Indexes : tstate[i] = "cancelled" /\ fut[i].state = "result"

====
